---- MODULE Spec2Model ----
(***************************************************************************)
(* Model of server.js: the Express backend with GET /api/portfolio and     *)
(* POST /api/contact.  The file holds two variants of the server; variant  *)
(* 1 (lines 1-180) saves the contact message and mails a notification      *)
(* through SendGrid, variant 2 (lines 182-293) only saves it.              *)
(*                                                                         *)
(* Each request is a process.  An async handler runs from one await to the *)
(* next as one atomic step: the steps of different requests interleave at  *)
(* the awaits of the Firestore and SendGrid calls.                         *)
(***************************************************************************)
EXTENDS Integers, Sequences, FiniteSets, TLC

\* Number of requests the server receives in one run.
MaxReqs == 2

Reqs == 1..MaxReqs

----------------------------------------------------------------------------
(* JavaScript values that a JSON body can put in a field.                  *)

Undef == [t |-> "undefined", s |-> <<>>, n |-> 0]
Str(chars) == [t |-> "string", s |-> chars, n |-> 0]
Num(k) == [t |-> "number", s |-> <<>>, n |-> k]

\* ToBoolean, as applied by the ! operator.
Truthy(v) ==
    CASE v.t = "undefined" -> FALSE
      [] v.t = "string" -> v.s # <<>>
      [] v.t = "number" -> v.n # 0

\* Only strings have a replace method; message.replace on anything else
\* throws a TypeError.
HasReplace(v) == v.t = "string"

\* String.prototype.replace(/\n/g, '<br>') on a sequence of characters.
RECURSIVE ReplaceNewlines(_)
ReplaceNewlines(chars) ==
    IF chars = <<>> THEN <<>>
    ELSE (IF Head(chars) = "\n" THEN <<"<", "b", "r", ">">> ELSE <<Head(chars)>>)
         \o ReplaceNewlines(Tail(chars))

Ada == Str(<<"A", "d", "a">>)
AdaMail == Str(<<"a", "@", "x">>)
HelloWorld == Str(<<"H", "i", "\n", "Y", "o">>)
Empty == Str(<<>>)

NameValues == {Undef, Empty, Ada}
EmailValues == {Undef, Empty, AdaMail}
MessageValues == {Undef, Empty, HelloWorld, Num(5)}

\* What the client sends: no body at all, or a JSON object.
NoBody == [present |-> FALSE, name |-> Undef, email |-> Undef, message |-> Undef]
JsonBodies == [present : {TRUE}, name : NameValues, email : EmailValues,
               message : MessageValues]
SentBodies == {NoBody} \cup JsonBodies

NoReq == [method |-> "none", body |-> NoBody]

----------------------------------------------------------------------------
(* Responses: res.status(s).json(b).                                       *)

NoResp == [status |-> 0, message |-> "", items |-> <<>>, id |-> 0, error |-> ""]
Json(s, m) == [status |-> s, message |-> m, items |-> <<>>, id |-> 0, error |-> ""]
JsonItems(s, xs) == [status |-> s, message |-> "", items |-> xs, id |-> 0, error |-> ""]
JsonId(s, m, i) == [status |-> s, message |-> m, items |-> <<>>, id |-> i, error |-> ""]
JsonError(s, m, e) == [status |-> s, message |-> m, items |-> <<>>, id |-> 0, error |-> e]

----------------------------------------------------------------------------
(* Errors the awaited calls reject with, as the catch block reads them:    *)
(* error.code and error.response.body.errors.                              *)

NoError == [kind |-> "none", code |-> 0, errors |-> FALSE]
TypeError == [kind |-> "TypeError", code |-> 0, errors |-> FALSE]
StoreError == [kind |-> "store", code |-> 14, errors |-> FALSE]
MailAuthError == [kind |-> "mail", code |-> 401, errors |-> TRUE]
MailRejected == [kind |-> "mail", code |-> 400, errors |-> TRUE]
MailTransportError == [kind |-> "mail", code |-> 0, errors |-> FALSE]
MailErrors == {MailAuthError, MailRejected, MailTransportError}

----------------------------------------------------------------------------
VARIABLES
    variant,          \* which of the two servers of the file is running
    db,               \* the Firestore handle; set before any route is served
    sendgridKey,      \* process.env.SENDGRID_API_KEY is set and read
    jsonInitBody,     \* express.json() leaves req.body = {} when no body came
    portfolio,        \* the portfolio collection: snapshot.docs
    contactMessages,  \* the contact collection(s): set of documents
    nextId,           \* the store's source of document ids and timestamps
    outbox,           \* the messages handed to sgMail.send
    pc,               \* per request: where its handler is
    req,              \* per request: method and body as sent
    addCalls,         \* per request: calls of collection(...).add
    sendCalls,        \* per request: calls of sgMail.send
    getCalls,         \* per request: calls of portfolioRef.get
    addResult,        \* per request: "none", "ok", "fail"
    sendResult,       \* per request: "none", "ok", "fail"
    caught,           \* per request: the error the catch block received
    diag,             \* per request: which diagnostic line the catch logged
    resp,             \* per request: the response sent
    nresp             \* per request: number of responses sent

vars == <<variant, db, sendgridKey, jsonInitBody, portfolio, contactMessages,
          nextId, outbox, pc, req, addCalls, sendCalls, getCalls, addResult,
          sendResult, caught, diag, resp, nresp>>

config == <<variant, db, sendgridKey, jsonInitBody, portfolio>>

\* Documents of the portfolio collection: an id and a schema-less field map.
PortfolioA == [id |-> "p1", data |-> [title |-> "A"]]
PortfolioB == [id |-> "p2", data |-> [title |-> "B"]]
Portfolios == {<<>>, <<PortfolioA, PortfolioB>>}

Init ==
    /\ variant \in {1, 2}
    /\ db = TRUE
    \* only variant 1 reads SENDGRID_API_KEY (lines 56-61, 133)
    /\ sendgridKey \in (IF variant = 1 THEN BOOLEAN ELSE {FALSE})
    /\ jsonInitBody \in BOOLEAN
    /\ portfolio \in Portfolios
    /\ contactMessages = {}
    /\ nextId = 1
    /\ outbox = {}
    /\ pc = [r \in Reqs |-> "idle"]
    /\ req = [r \in Reqs |-> NoReq]
    /\ addCalls = [r \in Reqs |-> 0]
    /\ sendCalls = [r \in Reqs |-> 0]
    /\ getCalls = [r \in Reqs |-> 0]
    /\ addResult = [r \in Reqs |-> "none"]
    /\ sendResult = [r \in Reqs |-> "none"]
    /\ caught = [r \in Reqs |-> NoError]
    /\ diag = [r \in Reqs |-> "none"]
    /\ resp = [r \in Reqs |-> NoResp]
    /\ nresp = [r \in Reqs |-> 0]

----------------------------------------------------------------------------
\* The request r arrives: requests are numbered in their order of arrival.
Arrives(r) ==
    /\ pc[r] = "idle"
    /\ IF r = 1 THEN TRUE ELSE pc[r - 1] # "idle"

\* req.body as the handler reads it, after app.use(express.json()).
ReqBody(b) ==
    IF b.present \/ ~jsonInitBody THEN b ELSE [b EXCEPT !.present = TRUE]

\* if (!name || !email || !message)
MissingField(body) ==
    ~Truthy(body.name) \/ ~Truthy(body.email) \/ ~Truthy(body.message)

\* The diagnostic line the catch block of variant 1 logs for an error.
Diagnostic(err) ==
    IF err.code # 0 /\ err.code = 401 THEN "auth"
    ELSE IF err.errors THEN "details"
    ELSE "none"

\* A catch block that maps the mailer's authentication error to its own
\* status.
CatchResponseByCode(err) ==
    IF err.code = 401
    THEN Json(401, "Email service is not authorised.")
    ELSE Json(500, "Failed to send message. Please try again later.")

\* The response of the catch block of variant 1.
CatchResponse(err) ==
    Json(500, "Failed to send message. Please try again later.")

\* The response of the catch block of variant 2.
CatchResponse2(err) ==
    JsonError(500, "Failed to send message.", err.kind)

\* The document that collection(path).add(fields) creates.
NewDoc(r, path) ==
    [id |-> nextId, path |-> path, name |-> req[r].body.name,
     email |-> req[r].body.email, message |-> req[r].body.message,
     timestamp |-> nextId, by |-> r]

\* An add() that is issued twice.
AppendedTwice(r, path) ==
    {NewDoc(r, path), [NewDoc(r, path) EXCEPT !.id = nextId + 1]}

\* An add() that skips a submission the collection already holds.
AppendedDeduplicated(r, path) ==
    IF \E d \in contactMessages :
           /\ d.name = req[r].body.name
           /\ d.email = req[r].body.email
           /\ d.message = req[r].body.message
    THEN {}
    ELSE {NewDoc(r, path)}

\* The documents one add() call appends to the collection.
Appended(r, path) == {NewDoc(r, path)}

\* A handler that does not look at the key before it sends.
MailConfiguredAlways == TRUE

\* The check of line 133 passes: process.env.SENDGRID_API_KEY is set.
MailConfigured == sendgridKey

\* The msg object of lines 139-151.
Notification(r) ==
    [by |-> r, to |-> "sudarshansapkota170@gmail.com",
     name |-> req[r].body.name, email |-> req[r].body.email,
     html |-> ReplaceNewlines(req[r].body.message.s)]

\* The handler of request r ends: it sent `response`; `err` is what its
\* catch block received (NoError when the catch block did not run).
Finish(r, response, err) ==
    /\ pc' = [pc EXCEPT ![r] = "done"]
    /\ resp' = [resp EXCEPT ![r] = response]
    /\ nresp' = [nresp EXCEPT ![r] = @ + 1]
    /\ caught' = [caught EXCEPT ![r] = err]
    /\ diag' = [diag EXCEPT ![r] = IF err = NoError THEN "none" ELSE Diagnostic(err)]

----------------------------------------------------------------------------
(* Variant 1, POST /api/contact (lines 104-173).                           *)

\* Lines 104-123: from the start of the handler to the await of add().
PostContact(r, b) ==
    /\ variant = 1
    /\ Arrives(r)
    /\ req' = [req EXCEPT ![r] = [method |-> "POST", body |-> b]]
    /\ UNCHANGED <<config, contactMessages, nextId, outbox, sendCalls,
                   getCalls, addResult, sendResult>>
    /\ IF ~ReqBody(b).present
       THEN \* line 106 destructures undefined: the TypeError is thrown
            \* before the try block and rejects the handler's promise
            /\ pc' = [pc EXCEPT ![r] = "escaped"]
            /\ UNCHANGED <<addCalls, resp, nresp, caught, diag>>
       ELSE IF MissingField(ReqBody(b))
       THEN /\ Finish(r, Json(400, "Please fill in all required fields (name, email, message)."), NoError)
            /\ UNCHANGED addCalls
       ELSE IF ~db
       THEN /\ Finish(r, Json(500, "Server error: Database not ready."), NoError)
            /\ UNCHANGED addCalls
       ELSE /\ pc' = [pc EXCEPT ![r] = "awaitAdd"]
            /\ addCalls' = [addCalls EXCEPT ![r] = @ + 1]
            /\ UNCHANGED <<resp, nresp, caught, diag>>

\* Lines 123-153: add() resolved; up to the await of sgMail.send().
AddResolve(r) ==
    /\ variant = 1
    /\ pc[r] = "awaitAdd"
    /\ addResult' = [addResult EXCEPT ![r] = "ok"]
    /\ contactMessages' = contactMessages \cup Appended(r, "contactMessages")
    /\ nextId' = nextId + 1
    /\ UNCHANGED <<config, req, addCalls, getCalls, sendResult>>
    /\ IF ~MailConfigured
       THEN /\ Finish(r, Json(200, "Message saved, but email notification skipped (API key missing)."), NoError)
            /\ UNCHANGED <<outbox, sendCalls>>
       ELSE IF ~HasReplace(req[r].body.message)
       THEN \* message.replace is not a function: caught at line 159
            /\ Finish(r, CatchResponse(TypeError), TypeError)
            /\ UNCHANGED <<outbox, sendCalls>>
       ELSE /\ outbox' = outbox \cup {Notification(r)}
            /\ sendCalls' = [sendCalls EXCEPT ![r] = @ + 1]
            /\ pc' = [pc EXCEPT ![r] = "awaitSend"]
            /\ UNCHANGED <<resp, nresp, caught, diag>>

\* A handler whose try block covers add() alone: the rejection is logged and
\* the notification is sent all the same.
AddRejectThenNotify(r) ==
    /\ variant = 1
    /\ pc[r] = "awaitAdd"
    /\ addResult' = [addResult EXCEPT ![r] = "fail"]
    /\ outbox' = outbox \cup {Notification(r)}
    /\ sendCalls' = [sendCalls EXCEPT ![r] = @ + 1]
    /\ pc' = [pc EXCEPT ![r] = "awaitSend"]
    /\ UNCHANGED <<config, contactMessages, nextId, req, addCalls, getCalls,
                   sendResult, resp, nresp, caught, diag>>

\* Lines 123, 159-172: add() rejected.
AddReject(r) ==
    /\ variant = 1
    /\ pc[r] = "awaitAdd"
    /\ addResult' = [addResult EXCEPT ![r] = "fail"]
    /\ Finish(r, CatchResponse(StoreError), StoreError)
    /\ UNCHANGED <<config, contactMessages, nextId, outbox, req, addCalls,
                   sendCalls, getCalls, sendResult>>

\* Lines 153-157: sgMail.send() resolved.
SendResolve(r) ==
    /\ variant = 1
    /\ pc[r] = "awaitSend"
    /\ sendResult' = [sendResult EXCEPT ![r] = "ok"]
    /\ Finish(r, Json(200, "Message sent and notification email dispatched!"), NoError)
    /\ UNCHANGED <<config, contactMessages, nextId, outbox, req, addCalls,
                   sendCalls, getCalls, addResult>>

\* Lines 153, 159-172: sgMail.send() rejected with err.
SendReject(r, err) ==
    /\ variant = 1
    /\ pc[r] = "awaitSend"
    /\ sendResult' = [sendResult EXCEPT ![r] = "fail"]
    /\ Finish(r, CatchResponse(err), err)
    /\ UNCHANGED <<config, contactMessages, nextId, outbox, req, addCalls,
                   sendCalls, getCalls, addResult>>

----------------------------------------------------------------------------
(* Variant 2, POST /api/contact (lines 263-287).                           *)

\* Lines 263-275: from the start of the handler to the await of add().
PostContact2(r, b) ==
    /\ variant = 2
    /\ Arrives(r)
    /\ req' = [req EXCEPT ![r] = [method |-> "POST", body |-> b]]
    /\ UNCHANGED <<config, contactMessages, nextId, outbox, sendCalls,
                   getCalls, addResult, sendResult>>
    /\ IF ~ReqBody(b).present
       THEN /\ pc' = [pc EXCEPT ![r] = "escaped"]
            /\ UNCHANGED <<addCalls, resp, nresp, caught, diag>>
       ELSE IF MissingField(ReqBody(b))
       THEN /\ Finish(r, Json(400, "All fields are required."), NoError)
            /\ UNCHANGED addCalls
       ELSE /\ pc' = [pc EXCEPT ![r] = "awaitAdd"]
            /\ addCalls' = [addCalls EXCEPT ![r] = @ + 1]
            /\ UNCHANGED <<resp, nresp, caught, diag>>

\* Lines 275-282: add() resolved.
AddResolve2(r) ==
    /\ variant = 2
    /\ pc[r] = "awaitAdd"
    /\ addResult' = [addResult EXCEPT ![r] = "ok"]
    /\ contactMessages' = contactMessages \cup Appended(r, "contact_messages")
    /\ nextId' = nextId + 1
    /\ Finish(r, JsonId(200, "Message sent successfully!", nextId), NoError)
    /\ UNCHANGED <<config, outbox, req, addCalls, sendCalls, getCalls, sendResult>>

\* Lines 275, 283-286: add() rejected.
AddReject2(r) ==
    /\ variant = 2
    /\ pc[r] = "awaitAdd"
    /\ addResult' = [addResult EXCEPT ![r] = "fail"]
    /\ pc' = [pc EXCEPT ![r] = "done"]
    /\ resp' = [resp EXCEPT ![r] = CatchResponse2(StoreError)]
    /\ nresp' = [nresp EXCEPT ![r] = @ + 1]
    /\ caught' = [caught EXCEPT ![r] = StoreError]
    /\ UNCHANGED <<config, contactMessages, nextId, outbox, req, addCalls,
                   sendCalls, getCalls, sendResult, diag>>

----------------------------------------------------------------------------
(* GET /api/portfolio (lines 74-101 and 236-260).                          *)

\* snapshot.docs.map(doc => ({ id: doc.id, ...doc.data() })): the fields of
\* the document, spread after id.
Item(doc) == doc.data @@ [id |-> doc.id]
PortfolioItems(docs) == [i \in 1..Len(docs) |-> Item(docs[i])]

\* Lines 74-82 and 236-241: up to the await of portfolioRef.get().
GetPortfolio(r) ==
    /\ Arrives(r)
    /\ req' = [req EXCEPT ![r] = [method |-> "GET", body |-> NoBody]]
    /\ UNCHANGED <<config, contactMessages, nextId, outbox, addCalls,
                   sendCalls, addResult, sendResult>>
    /\ IF variant = 1 /\ ~db
       THEN /\ Finish(r, Json(500, "Firebase not initialized."), NoError)
            /\ UNCHANGED getCalls
       ELSE /\ pc' = [pc EXCEPT ![r] = "awaitGet"]
            /\ getCalls' = [getCalls EXCEPT ![r] = @ + 1]
            /\ UNCHANGED <<resp, nresp, caught, diag>>

\* A handler that treats an empty collection as not found.
PortfolioResponseNotFound(docs) ==
    IF docs = <<>> THEN Json(404, "No portfolio items found.")
    ELSE JsonItems(200, PortfolioItems(docs))

\* The response of lines 84-96 and 243-255 to the snapshot's documents.
PortfolioResponse(docs) ==
    IF docs = <<>> THEN JsonItems(200, <<>>)
    ELSE JsonItems(200, PortfolioItems(docs))

\* Lines 82-96 and 241-255: get() resolved with the snapshot.
GetResolve(r) ==
    /\ pc[r] = "awaitGet"
    /\ Finish(r, PortfolioResponse(portfolio), NoError)
    /\ UNCHANGED <<config, contactMessages, nextId, outbox, req, addCalls,
                   sendCalls, getCalls, addResult, sendResult>>

\* Lines 97-100 and 256-259: get() rejected.
GetReject(r) ==
    /\ pc[r] = "awaitGet"
    /\ pc' = [pc EXCEPT ![r] = "done"]
    /\ resp' = [resp EXCEPT ![r] = JsonError(500, "Failed to fetch portfolio items.", StoreError.kind)]
    /\ nresp' = [nresp EXCEPT ![r] = @ + 1]
    /\ caught' = [caught EXCEPT ![r] = StoreError]
    /\ UNCHANGED <<config, contactMessages, nextId, outbox, req, addCalls,
                   sendCalls, getCalls, addResult, sendResult, diag>>

----------------------------------------------------------------------------
Next ==
    \E r \in Reqs :
        \/ \E b \in SentBodies : PostContact(r, b)
        \/ AddResolve(r)
        \/ AddReject(r)
        \/ SendResolve(r)
        \/ \E err \in MailErrors : SendReject(r, err)
        \/ \E b \in SentBodies : PostContact2(r, b)
        \/ AddResolve2(r)
        \/ AddReject2(r)
        \/ GetPortfolio(r)
        \/ GetResolve(r)
        \/ GetReject(r)

Spec == Init /\ [][Next]_vars

----------------------------------------------------------------------------
(* Vocabulary of the properties.                                           *)

Done(r) == pc[r] = "done"
IsPost(r) == req[r].method = "POST"
IsGet(r) == req[r].method = "GET"

\* A field is absent or the empty string.
AbsentOrEmpty(v) == v.t = "undefined" \/ (v.t = "string" /\ Len(v.s) = 0)

\* A POST in which name, email or message is absent or empty.
InvalidSubmission(r) ==
    /\ IsPost(r)
    /\ \/ AbsentOrEmpty(req[r].body.name)
       \/ AbsentOrEmpty(req[r].body.email)
       \/ AbsentOrEmpty(req[r].body.message)

\* A POST in which name, email and message are all present and non-empty.
ValidSubmission(r) == IsPost(r) /\ ~InvalidSubmission(r)

\* The documents of the store that request r wrote.
DocsBy(r) == {d \in contactMessages : d.by = r}

\* The requests whose add() resolved.
Saved == {r \in Reqs : addResult[r] = "ok"}

----------------------------------------------------------------------------
\* C1: every POST /contact in which name, email or message is absent or
\* empty is answered 400 by the handler, with no call to the store and no
\* call to the mailer.
C1_InvalidInputAnswered400 ==
    \A r \in Reqs :
        InvalidSubmission(r) =>
            /\ Done(r)
            /\ nresp[r] = 1
            /\ resp[r].status = 400
            /\ addCalls[r] = 0
            /\ sendCalls[r] = 0

\* C2: a valid submission makes exactly one add() call and never writes
\* twice: while the call is pending nothing is written, once the handler has
\* ended the store holds exactly one document of the request when the add
\* resolved and none when it was rejected.
C2_OneDocumentPerValidSubmission ==
    \A r \in Reqs :
        ValidSubmission(r) =>
            /\ addCalls[r] = 1
            /\ Cardinality(DocsBy(r)) <= 1
            /\ addResult[r] = "ok" <=> Cardinality(DocsBy(r)) = 1
            /\ Done(r) => addResult[r] \in {"ok", "fail"}

C2_Witness ==
    \E r \in Reqs :
        /\ ValidSubmission(r)
        /\ Done(r)
        /\ Cardinality(DocsBy(r)) = 1
        /\ addCalls[r] = 1

\* C3: when the add() of a submission is rejected the handler answers 500,
\* does not call add() again and never calls the mailer; a call of the mailer
\* is always preceded by a resolved add() of the same request, whose document
\* is in the store.
C3_NoMailWithoutSave ==
    \A r \in Reqs :
        /\ addResult[r] = "fail" =>
              /\ Done(r)
              /\ nresp[r] = 1
              /\ resp[r].status = 500
              /\ addCalls[r] = 1
              /\ sendCalls[r] = 0
              /\ DocsBy(r) = {}
        /\ sendCalls[r] > 0 =>
              /\ addResult[r] = "ok"
              /\ DocsBy(r) # {}
        /\ (\E m \in outbox : m.by = r) => addResult[r] = "ok"

C3_Witness ==
    /\ \E r \in Reqs : addResult[r] = "fail" /\ Done(r) /\ resp[r].status = 500
    /\ \E r \in Reqs : sendCalls[r] = 1 /\ addResult[r] = "ok"

\* C4: with no SendGrid key configured, every valid submission whose add()
\* resolved has exactly one document in the store, is answered 200 (in
\* variant 1 with the notification-skipped message) and made no call of the
\* mailer.
C4_SavedWithoutTransport ==
    ~sendgridKey =>
        \A r \in Reqs :
            (ValidSubmission(r) /\ addResult[r] = "ok") =>
                /\ Done(r)
                /\ Cardinality(DocsBy(r)) = 1
                /\ nresp[r] = 1
                /\ resp[r].status = 200
                /\ variant = 1 =>
                      resp[r].message = "Message saved, but email notification skipped (API key missing)."
                /\ sendCalls[r] = 0
                /\ \A m \in outbox : m.by # r

C4_Witness ==
    /\ ~sendgridKey
    /\ variant = 1
    /\ \E r \in Reqs :
          /\ ValidSubmission(r)
          /\ addResult[r] = "ok"
          /\ resp[r].status = 200
          /\ Cardinality(DocsBy(r)) = 1

\* C5: in variant 1 with a SendGrid key, every submission that passes
\* validation, whatever the JSON type of its fields, whose add() resolved and
\* whose send the mailer did not reject, made exactly one call of the mailer
\* and is answered 200.
C5_SavedAndNotified ==
    (variant = 1 /\ sendgridKey) =>
        \A r \in Reqs :
            (ValidSubmission(r) /\ Done(r) /\ addResult[r] = "ok"
                /\ sendResult[r] # "fail") =>
                /\ sendCalls[r] = 1
                /\ resp[r].status = 200

\* C6: when the add() resolved and the send is rejected, the handler answers
\* 500 with the same body whatever the error (code 401 or not), made one
\* call of the mailer and one of the store, and the document stays in the
\* store.
C6_NotificationFailureKeepsRecord ==
    \A r \in Reqs :
        sendResult[r] = "fail" =>
            /\ Done(r)
            /\ addResult[r] = "ok"
            /\ nresp[r] = 1
            /\ resp[r].status = 500
            /\ sendCalls[r] = 1
            /\ addCalls[r] = 1
            /\ Cardinality(DocsBy(r)) = 1
            /\ \A q \in Reqs : sendResult[q] = "fail" => resp[q] = resp[r]

C6_Witness ==
    \E r, q \in Reqs :
        /\ sendResult[r] = "fail" /\ caught[r].code = 401 /\ diag[r] = "auth"
        /\ sendResult[q] = "fail" /\ caught[q].code # 401
        /\ resp[r].status = 500
        /\ DocsBy(r) # {} /\ DocsBy(q) # {}

\* C7: the response to a submission that was saved but whose notification
\* failed differs from the response to a submission that was not saved.
C7_SavedDistinguishedFromNotSaved ==
    \A r, q \in Reqs :
        (Done(r) /\ Done(q) /\ addResult[r] = "fail" /\ sendResult[q] = "fail") =>
            resp[r] # resp[q]

\* C8: no fault leaves the contact handler: every POST, whatever its body,
\* ends with exactly one response that carries a status and a message.
C8_NoFaultLeavesHandler ==
    \A r \in Reqs :
        IsPost(r) =>
            /\ pc[r] # "escaped"
            /\ Done(r) =>
                  /\ nresp[r] = 1
                  /\ resp[r].status \in {200, 400, 500}
                  /\ resp[r].message # ""

\* What a request received: its submission and the results of its own calls.
Inputs(r) == <<req[r], addResult[r], sendResult[r], caught[r]>>

\* The state of the handler of request r.
Handler(r) == <<pc[r], req[r], addCalls[r], sendCalls[r], getCalls[r],
                addResult[r], sendResult[r], caught[r], diag[r], resp[r],
                nresp[r]>>

C9_State ==
    \* one record per request whose add() resolved, and no other record
    /\ \A r \in Reqs : Cardinality(DocsBy(r)) = (IF r \in Saved THEN 1 ELSE 0)
    /\ Cardinality(contactMessages) = Cardinality(Saved)
    \* records are distinct by their store-assigned id, identical
    \* submissions included
    /\ \A d, e \in contactMessages : d.id = e.id => d = e
    /\ \A r, q \in Saved :
          (r # q /\ req[r] = req[q]) =>
              \E d \in DocsBy(r), e \in DocsBy(q) :
                  /\ d.id # e.id
                  /\ d.name = e.name /\ d.email = e.email /\ d.message = e.message
    \* the status and message a request is answered with are determined by
    \* what the request itself received
    /\ \A r, q \in Reqs :
          (Done(r) /\ Done(q) /\ Inputs(r) = Inputs(q)) =>
              /\ resp[r].status = resp[q].status
              /\ resp[r].message = resp[q].message
    \* a request waiting for the store is never held back by another one
    /\ \A r \in Reqs :
          pc[r] = "awaitAdd" => ENABLED (AddResolve(r) \/ AddResolve2(r))

C9_Step ==
    \* records are only added: none is removed or changed
    /\ contactMessages \subseteq contactMessages'
    \* a step is a step of one request and leaves every other handler alone
    /\ \E r \in Reqs : \A q \in Reqs \ {r} : Handler(q)' = Handler(q)

\* C9: under every interleaving of the requests the set of contact records
\* only grows, holds exactly one record per request whose add() resolved
\* (two for a submission sent twice), and what a request is answered depends
\* on no other request.
C9_RecordsOnlyGrow == [](C9_State) /\ [][C9_Step]_vars

C9_Witness ==
    \E r, q \in Saved :
        /\ r # q
        /\ req[r] = req[q]
        /\ Cardinality(contactMessages) = 2
        /\ Done(r) /\ Done(q)

C10_State ==
    \A r \in Reqs :
        (IsGet(r) /\ Done(r)) =>
            /\ getCalls[r] = 1
            /\ nresp[r] = 1
            /\ resp[r].status \in {200, 500}
            /\ caught[r] = NoError =>
                  /\ resp[r].status = 200
                  /\ Len(resp[r].items) = Len(portfolio)
                  /\ \A i \in 1..Len(portfolio) :
                        /\ resp[r].items[i].id = portfolio[i].id
                        /\ resp[r].items[i].title = portfolio[i].data.title
            /\ resp[r].status = 500 => caught[r] = StoreError

C10_Step ==
    (\E r \in Reqs : IsGet(r)' /\ Handler(r)' # Handler(r)) =>
        UNCHANGED <<contactMessages, nextId, portfolio, outbox, addCalls, sendCalls>>

\* C10: GET /portfolio answers 200 with the documents of the collection
\* whenever get() resolved, 200 with an empty array when the collection is
\* empty, 500 only when get() was rejected, and writes nothing.
C10_PortfolioRead == [](C10_State) /\ [][C10_Step]_vars

C10_Witness ==
    /\ portfolio = <<>>
    /\ \E r \in Reqs :
          IsGet(r) /\ Done(r) /\ caught[r] = NoError /\ resp[r].status = 200
            /\ resp[r].items = <<>>
    /\ \E q \in Reqs :
          IsGet(q) /\ Done(q) /\ caught[q] = StoreError /\ resp[q].status = 500

====
